---- MODULE Spec2Model ----
(***************************************************************************)
(* Model of the fee-history cache (crates/rpc/rpc/src/eth/api/             *)
(* fee_history.rs) and of the pending-block stage                          *)
(* (crates/rpc/rpc/src/eth/api/mod.rs, local_pending_block).               *)
(*                                                                         *)
(* Specifications:                                                         *)
(*   Spec          one ingestion writer (on_new_blocks) and one reader     *)
(*                 (get_history) sharing a FeeHistoryCache.                *)
(*   SpecScenario  blocks 1..ScenarioBlocks ingested one per call.         *)
(*   SpecPending   concurrent local_pending_block requests.                *)
(*   SpecRewards   calculate_reward_percentiles_for_block on bounded inputs. *)
(*   SpecTask      fee_history_cache_new_blocks_task feeding the cache.    *)
(*   SpecTaskFair  SpecTask with weak fairness of the task's steps.         *)
(*   SpecEntries   on_new_blocks storing entries with their rewards.       *)
(***************************************************************************)
EXTENDS Integers, Sequences, FiniteSets, TLC

\* ------------------------------------------------------------------ bounds

\* Block numbers range over 0..MaxBlockNum.
MaxBlockNum == 2
\* Longest batch handed to one on_new_blocks call.
MaxBatch == 2
\* Largest configured max_blocks tried in Spec.
MaxCap == 2
\* Number of blocks fed in SpecScenario.
ScenarioBlocks == 2000

\* SpecPending: local_pending_block is called NumRequests times, at any
\* moments, by concurrent callers.
NumRequests == 2
\* SpecPending: the clock runs over 0..MaxTime.
MaxTime == 4
\* SpecPending: the latest header's number runs over 0..MaxHead.
MaxHead == 1

\* SpecTask: the notification stream buffers at most MaxQueue notifications.
MaxQueue == 1

\* SpecRewards: a block holds at most MaxTxs transactions.
MaxTxs == 3
\* SpecRewards: at most MaxPercentiles percentiles are asked for.
MaxPercentiles == 3

\* SpecRewards: the effective tips, the gas of one transaction, the block's
\* gas_used and the percentiles the inputs are drawn from.
TipValues == {1, 5, 9}
GasValues == {10, 30}
GasUsedValues == {60, 90}
PercentileValues == {0, 50, 100}

\* Largest configured resolution tried in SpecEntries.
MaxResolution == 2

\* FeeHistoryCacheConfig::default().max_blocks
DefaultMaxBlocks == 1024
\* Duration::from_secs(3): how long a built pending block stays good.
PendingTtl == 3

\* FeeHistoryCacheConfig::default().resolution
DefaultResolution == 4

\* ------------------------------------------------------------------ state

VARIABLES
    max_blocks,     \* config.max_blocks
    resolution,     \* config.resolution
    entries,        \* the BTreeMap<u64, FeeHistoryEntry> behind the RwLock
    lower_bound,    \* AtomicU64
    upper_bound,    \* AtomicU64
    wpc,            \* position of the on_new_blocks call: idle, evict, store_upper, store_lower
    wbatch,         \* the batch of the call in progress (kept until the bounds are stored)
    wmiss,          \* position of the first block the eth_cache cannot supply (0: none)
    wpre,           \* the map as it was when the call took the write lock (kept until eviction)
    fed,            \* SpecScenario: number of blocks handed over so far
    rpc,            \* position of the get_history call: idle, load_upper, read, done
    rs,             \* start_block of the call
    re,             \* end_block of the call
    rlb,            \* the lower bound the call loaded (kept until the call is through with the map)
    rresult,        \* what the call returned
    pending_block,  \* EthApiInner::pending_block, the Mutex's content: <<>> or <<PendingBlock>>
    mutex,          \* the request holding pending_block.lock(), or 0
    now,            \* Instant::now()
    latest,         \* the provider's latest header
    cl_pending,     \* whether the provider has an actual pending block
    syncing,        \* network().is_syncing()
    builds,         \* builds dispatched so far
    qpc,            \* position of each local_pending_block call: idle (not yet made), lock, build, done
    qorigin,        \* the header of the origin each request resolved
    qresult,        \* what each request returned
    cpc,            \* position of the calculate_reward_percentiles_for_block call: idle, start, loop, done
    percentiles,    \* argument: the percentiles asked for
    gas_used,       \* argument: the block's gas_used
    transactions,   \* argument: the block's transactions, each as its effective tip per gas
    receipts,       \* argument: the receipts, each as its cumulative_gas_used
    sorted,         \* the TxGasAndReward vector (the shadowing `transactions`) after sort_by_key
    tx_index,       \* the cursor shared by all percentiles (counts from 0)
    cumulative_gas_used,  \* gas of sorted[0..=tx_index]
    pnext,          \* number of percentiles the for loop has taken
    rewards_in_block,     \* the result under construction
    tpc,            \* position of fee_history_cache_new_blocks_task: init, backfill, await, event, ingest, ended
    tevent,         \* the notification the loop's iteration in progress took from the stream
    tcalls,         \* on_new_blocks calls made in that iteration
    tbackfill,      \* what the provider answered the backfill in progress: <<>> or <<answers>>
    events,         \* the number of notifications sent and not yet taken by the task
    closed          \* whether the stream's sender is gone

feeVars == <<max_blocks, resolution, entries, lower_bound, upper_bound, wpc, wbatch, wmiss, wpre, fed>>
readerVars == <<rpc, rs, re, rlb, rresult>>
cacheVars == <<max_blocks, resolution, entries, lower_bound, upper_bound, wpc, wbatch, wmiss, wpre, fed,
               rpc, rs, re, rlb, rresult>>
providerVars == <<now, latest, cl_pending, syncing>>
pendingVars == <<pending_block, mutex, now, latest, cl_pending, syncing, builds,
                 qpc, qorigin, qresult>>
calcVars == <<cpc, percentiles, gas_used, transactions, receipts, sorted, tx_index,
              cumulative_gas_used, pnext, rewards_in_block>>
taskVars == <<tpc, tevent, tcalls, tbackfill, events, closed>>

\* ------------------------------------------------------------------ blocks

\* A sealed block: its number and its hash. The hash commits to the number;
\* the second component tells apart competing blocks of one height.
Block(n, f) == [number |-> n, hash |-> <<n, f>>]

HashNumber(h) == h[1]

CanonicalBlocks == {Block(n, 0) : n \in 0..MaxBlockNum}

RECURSIVE SeqsUpTo(_, _)
SeqsUpTo(S, n) ==
    IF n = 0 THEN {<<>>}
    ELSE LET shorter == SeqsUpTo(S, n - 1)
         IN shorter \cup {Append(q, x) : q \in {t \in shorter : Len(t) = n - 1}, x \in S}

\* Every batch of at most MaxBatch blocks, in any order, with any numbers.
Batches == SeqsUpTo(CanonicalBlocks, MaxBatch)

\* ------------------------------------------------------------------ FeeHistoryEntry and the map

FeeHistoryEntryNew(block) == [header_hash |-> block.hash]

EmptyMap == [k \in {} |-> FeeHistoryEntryNew(Block(0, 0))]

\* Variant: entry(k).or_insert(v), an entry already there is kept.
MapInsertKeeping(m, k, v) == [x \in DOMAIN m \cup {k} |-> IF x \in DOMAIN m THEN m[x] ELSE v]

\* BTreeMap::insert: the new value replaces an old one under the same key.
MapInsert(m, k, v) == [x \in DOMAIN m \cup {k} |-> IF x = k THEN v ELSE m[x]]

\* first_entry().key(): the smallest key.
FirstKey(m) == CHOOSE k \in DOMAIN m : \A j \in DOMAIN m : k <= j

\* Variant: the upper bound taken from first_entry().
LastKeyTakesFirst(m) == FirstKey(m)

\* last_entry().key(): the largest key.
LastKey(m) == -(CHOOSE k \in {-j : j \in DOMAIN m} : \A i \in DOMAIN m : k <= -i)

\* Variant: pop_last in place of pop_first.
PopLast(m) ==
    IF DOMAIN m = {} THEN m ELSE [x \in DOMAIN m \ {LastKey(m)} |-> m[x]]

\* BTreeMap::pop_first: removes the entry with the smallest key.
PopFirst(m) ==
    IF DOMAIN m = {} THEN m ELSE [x \in DOMAIN m \ {FirstKey(m)} |-> m[x]]

\* Variant: an if in place of the while.
EvictLoopOnce(m, cap) ==
    IF Cardinality(DOMAIN m) > cap THEN PopFirst(m) ELSE m

\* Variant: >= in place of >.
RECURSIVE EvictLoopShort(_, _)
EvictLoopShort(m, cap) ==
    IF Cardinality(DOMAIN m) >= cap /\ DOMAIN m # {}
    THEN EvictLoopShort(PopFirst(m), cap) ELSE m

\* while entries.len() > max_blocks { entries.pop_first(); }
RECURSIVE EvictLoop(_, _)
EvictLoop(m, cap) ==
    IF Cardinality(DOMAIN m) > cap THEN EvictLoop(PopFirst(m), cap) ELSE m

\* Variant: the loop skips a block it cannot get data for and goes on.
RECURSIVE InsertBlocksContinue(_, _, _, _)
InsertBlocksContinue(m, batch, i, miss) ==
    IF i > Len(batch) THEN m
    ELSE IF i = miss THEN InsertBlocksContinue(m, batch, i + 1, miss)
    ELSE InsertBlocksContinue(
            MapInsert(m, batch[i].number, FeeHistoryEntryNew(batch[i])), batch, i + 1, miss)

\* The for loop of on_new_blocks from position i on: each block is inserted
\* under its number; the loop breaks at the first block (position miss)
\* whose transactions and receipts the eth_cache does not supply.
RECURSIVE InsertBlocks(_, _, _, _)
InsertBlocks(m, batch, i, miss) ==
    IF i > Len(batch) THEN m
    ELSE IF i = miss THEN m
    ELSE InsertBlocks(
            MapInsert(m, batch[i].number, FeeHistoryEntryNew(batch[i])), batch, i + 1, miss)

\* ------------------------------------------------------------------ on_new_blocks

\* entries.write().await, then the for loop. The map is only reachable
\* through the lock, which the call holds until it returns, so the loop's
\* iterations are one step for every other task.
OnNewBlocksBegin(batch, miss) ==
    /\ wpc = "idle"
    /\ entries' = InsertBlocks(entries, batch, 1, miss)
    /\ wpc' = "evict"
    /\ wbatch' = batch
    /\ wmiss' = miss
    /\ wpre' = entries
    /\ UNCHANGED <<max_blocks, resolution, lower_bound, upper_bound>>

OnNewBlocksEvict ==
    /\ wpc = "evict"
    /\ entries' = EvictLoop(entries, max_blocks)
    /\ wpc' = "store_upper"
    /\ wpre' = EmptyMap
    /\ UNCHANGED <<max_blocks, resolution, lower_bound, upper_bound, wbatch, wmiss, fed>>

\* upper_bound.store(..) comes first on both paths (empty and non-empty).
OnNewBlocksStoreUpper ==
    /\ wpc = "store_upper"
    /\ upper_bound' = IF DOMAIN entries = {} THEN 0 ELSE LastKey(entries)
    /\ wpc' = "store_lower"
    /\ wbatch' = <<>>
    /\ UNCHANGED <<max_blocks, resolution, entries, lower_bound, wmiss, wpre, fed>>

\* lower_bound.store(..), then the call returns and drops the write guard.
OnNewBlocksStoreLower ==
    /\ wpc = "store_lower"
    /\ lower_bound' = IF DOMAIN entries = {} THEN 0 ELSE FirstKey(entries)
    /\ wpc' = "idle"
    /\ wmiss' = 0
    /\ UNCHANGED <<max_blocks, resolution, entries, upper_bound, wbatch, wpre, fed>>

\* ------------------------------------------------------------------ get_history

None == [kind |-> "None", items |-> <<>>]
Some(items) == [kind |-> "Some", items |-> items]
Panicked == [kind |-> "Panic", items |-> <<>>]

\* Variant: || in place of &&.
WithinEitherBound(start_block, end_block, lb, ub) ==
    start_block >= lb \/ end_block <= ub

\* start_block >= lower_bound && end_block <= upper_bound
WithinBounds(start_block, end_block, lb, ub) ==
    start_block >= lb /\ end_block <= ub

\* BTreeMap::range(lo..=hi): the values under the keys lo..hi, both ends
\* included, in ascending key order.
RECURSIVE RangeInclusive(_, _, _)
RangeInclusive(m, lo, hi) ==
    IF lo > hi THEN <<>>
    ELSE (IF lo \in DOMAIN m THEN <<m[lo]>> ELSE <<>>) \o RangeInclusive(m, lo + 1, hi)

\* entries.range(start_block..=end_block + 1) ... collect(); BTreeMap::range
\* panics when the range's start is greater than its end.
CollectRange(m, start_block, end_block) ==
    IF start_block > end_block + 1 THEN Panicked
    ELSE Some(RangeInclusive(m, start_block, end_block + 1))

\* let lower_bound = self.lower_bound();
GetHistoryStart(s, e) ==
    /\ rpc = "idle"
    /\ rs' = s
    /\ re' = e
    /\ rlb' = lower_bound
    /\ rresult' = None
    /\ rpc' = "load_upper"
    /\ UNCHANGED feeVars

\* Variant: the bounds are checked with the entries lock held.
GetHistoryCheckLocked ==
    /\ rpc = "load_upper"
    /\ wpc = "idle"
    /\ IF WithinBounds(rs, re, rlb, upper_bound)
       THEN rpc' = "read" /\ rlb' = rlb
       ELSE rpc' = "done" /\ rlb' = 0
    /\ UNCHANGED <<rs, re, rresult>>
    /\ UNCHANGED feeVars

\* let upper_bound = self.upper_bound(); and the bounds check.
GetHistoryCheck ==
    /\ rpc = "load_upper"
    /\ IF WithinBounds(rs, re, rlb, upper_bound)
       THEN rpc' = "read" /\ rlb' = rlb
       ELSE rpc' = "done" /\ rlb' = 0
    /\ UNCHANGED <<rs, re, rresult>>
    /\ UNCHANGED feeVars

\* Variant: the entries handed out are removed from the map.
GetHistoryReadDraining ==
    /\ rpc = "read"
    /\ wpc = "idle"
    /\ rresult' = CollectRange(entries, rs, re)
    /\ entries' = [n \in {k \in DOMAIN entries : k < rs \/ k > re + 1} |-> entries[n]]
    /\ rpc' = "done"
    /\ rlb' = 0
    /\ UNCHANGED <<rs, re>>
    /\ UNCHANGED <<max_blocks, resolution, lower_bound, upper_bound, wpc, wbatch, wmiss, wpre, fed>>

\* entries.read().await and the range query: the read guard is taken and
\* dropped with no await in between, and cannot be taken while an
\* on_new_blocks call holds the write guard.
GetHistoryRead ==
    /\ rpc = "read"
    /\ wpc = "idle"
    /\ rresult' = CollectRange(entries, rs, re)
    /\ rpc' = "done"
    /\ rlb' = 0
    /\ UNCHANGED <<rs, re>>
    /\ UNCHANGED feeVars

GetHistoryReturn ==
    /\ rpc = "done"
    /\ rpc' = "idle"
    /\ rs' = 0
    /\ re' = 0
    /\ rresult' = None
    /\ UNCHANGED rlb
    /\ UNCHANGED feeVars

\* ------------------------------------------------------------------ calculate_reward_percentiles_for_block

\* TxGasAndReward
TxGasAndReward(gas, reward) == [gas_used |-> gas, reward |-> reward]

\* zip(receipts).scan(0, ..): the gas of transaction i is its receipt's
\* cumulative_gas_used minus the previous receipt's; its reward is its
\* effective tip. zip stops at the shorter of the two lists.
ScanGas(txs, rcpts) ==
    LET n == IF Len(txs) < Len(rcpts) THEN Len(txs) ELSE Len(rcpts)
    IN [i \in 1..n |->
          TxGasAndReward(rcpts[i] - (IF i = 1 THEN 0 ELSE rcpts[i - 1]), txs[i])]

\* Variant: x goes before the elements of equal or greater reward, from the
\* back: the list ends up in descending order.
RECURSIVE InsertDescending(_, _)
InsertDescending(list, x) ==
    IF list = <<>> THEN <<x>>
    ELSE IF Head(list).reward >= x.reward THEN <<Head(list)>> \o InsertDescending(Tail(list), x)
    ELSE <<x>> \o list

\* x goes behind every element whose reward is not greater than its own.
RECURSIVE InsertByReward(_, _)
InsertByReward(list, x) ==
    IF list = <<>> THEN <<x>>
    ELSE IF Head(list).reward <= x.reward THEN <<Head(list)>> \o InsertByReward(Tail(list), x)
    ELSE <<x>> \o list

\* sort_by_key(|tx| tx.reward): ascending and stable.
RECURSIVE SortByReward(_)
SortByReward(list) ==
    IF list = <<>> THEN <<>>
    ELSE InsertByReward(SortByReward(SubSeq(list, 1, Len(list) - 1)), list[Len(list)])

\* (gas_used as f64 * percentile / 100.) as u64: the cast truncates. The
\* percentiles here are whole numbers and the products far below 2^53, where
\* the f64 arithmetic is exact up to the final truncation.
Threshold(gas, percentile) == (gas * percentile) \div 100

\* Variant: <= in place of < in the comparison with the threshold.
RECURSIVE AdvanceCursorInclusive(_, _, _, _)
AdvanceCursorInclusive(list, index, cumulative, threshold) ==
    IF cumulative <= threshold /\ index < Len(list) - 1
    THEN AdvanceCursorInclusive(list, index + 1, cumulative + list[index + 2].gas_used, threshold)
    ELSE [tx_index |-> index, cumulative_gas_used |-> cumulative]

\* while cumulative_gas_used < threshold && tx_index < transactions.len() - 1
\* { tx_index += 1; cumulative_gas_used += transactions[tx_index].gas_used }
\* (list[index + 2] is transactions[tx_index + 1] counted from 0).
RECURSIVE AdvanceCursor(_, _, _, _)
AdvanceCursor(list, index, cumulative, threshold) ==
    IF cumulative < threshold /\ index < Len(list) - 1
    THEN AdvanceCursor(list, index + 1, cumulative + list[index + 2].gas_used, threshold)
    ELSE [tx_index |-> index, cumulative_gas_used |-> cumulative]

\* The scan, the sort and the initialisation of the cursor, the running sum
\* and the result.
CalculateStart ==
    /\ cpc = "start"
    /\ LET list == SortByReward(ScanGas(transactions, receipts))
       IN /\ sorted' = list
          /\ cumulative_gas_used' = IF list = <<>> THEN 0 ELSE list[1].gas_used
    /\ tx_index' = 0
    /\ pnext' = 0
    /\ rewards_in_block' = <<>>
    /\ cpc' = "loop"
    /\ UNCHANGED <<percentiles, gas_used, transactions, receipts>>

\* Variant: the iteration for an empty block pushes nothing.
CalculateEmptyBlockSkips ==
    /\ cpc = "loop"
    /\ pnext < Len(percentiles)
    /\ sorted = <<>>
    /\ pnext' = pnext + 1
    /\ UNCHANGED <<cpc, rewards_in_block, tx_index, cumulative_gas_used>>
    /\ UNCHANGED <<percentiles, gas_used, transactions, receipts, sorted>>

\* One iteration of the for loop on an empty block: push(U256::ZERO); continue
CalculateEmptyBlock ==
    /\ cpc = "loop"
    /\ pnext < Len(percentiles)
    /\ sorted = <<>>
    /\ pnext' = pnext + 1
    /\ rewards_in_block' = Append(rewards_in_block, 0)
    /\ UNCHANGED <<cpc, tx_index, cumulative_gas_used>>
    /\ UNCHANGED <<percentiles, gas_used, transactions, receipts, sorted>>

\* One iteration of the for loop on a block with transactions: the cursor
\* advances to the threshold of the next percentile and the reward under it
\* is pushed.
CalculatePercentile ==
    /\ cpc = "loop"
    /\ pnext < Len(percentiles)
    /\ sorted # <<>>
    /\ LET threshold == Threshold(gas_used, percentiles[pnext + 1])
           cursor == AdvanceCursor(sorted, tx_index, cumulative_gas_used, threshold)
       IN /\ tx_index' = cursor.tx_index
          /\ cumulative_gas_used' = cursor.cumulative_gas_used
          /\ rewards_in_block' = Append(rewards_in_block, sorted[cursor.tx_index + 1].reward)
    /\ pnext' = pnext + 1
    /\ UNCHANGED cpc
    /\ UNCHANGED <<percentiles, gas_used, transactions, receipts, sorted>>

\* Ok(rewards_in_block)
CalculateReturn ==
    /\ cpc = "loop"
    /\ pnext = Len(percentiles)
    /\ cpc' = "done"
    /\ UNCHANGED <<percentiles, gas_used, transactions, receipts, sorted, tx_index,
                   cumulative_gas_used, pnext, rewards_in_block>>

\* No call of the calculator under way.
InitCalc ==
    /\ cpc = "idle"
    /\ percentiles = <<>>
    /\ gas_used = 0
    /\ transactions = <<>>
    /\ receipts = <<>>
    /\ sorted = <<>>
    /\ tx_index = 0
    /\ cumulative_gas_used = 0
    /\ pnext = 0
    /\ rewards_in_block = <<>>

\* ------------------------------------------------------------------ fee_history_cache_new_blocks_task

\* A CanonStateNotification as the task reads it: committed() is None or
\* the committed chain, whose blocks are a BTreeMap keyed by block number.
Notification(committed) == [committed |-> committed]

\* A chain of the blocks lo..hi, lo <= hi; f tells apart competing chains.
Chain(lo, hi, f) == [n \in lo..hi |-> Block(n, f)]

Notifications ==
    {Notification(<<>>)} \cup
    {Notification(<<Chain(r[1], r[2], f)>>) :
        r \in {x \in (0..MaxBlockNum) \X (0..MaxBlockNum) : x[1] <= x[2]}, f \in {0, 1}}

\* Variant: the map's values from the largest key down.
RECURSIVE MapValuesDescending(_)
MapValuesDescending(m) ==
    IF DOMAIN m = {} THEN <<>>
    ELSE <<m[LastKey(m)]>> \o MapValuesDescending(PopLast(m))

\* blocks.iter().map(|(_, v)| v.block.clone()).collect(): a BTreeMap iterates
\* in ascending key order.
RECURSIVE MapValues(_)
MapValues(m) ==
    IF DOMAIN m = {} THEN <<>>
    ELSE <<m[FirstKey(m)]>> \o MapValues(PopFirst(m))

\* Variant: start_block..last_block_number, the end left out.
BlockRangeExclusive(start_block, last_block_number) ==
    [i \in 1..(last_block_number - start_block) |-> Block(start_block + i - 1, 0)]

\* provider.block_range(start_block..=last_block_number), sealed.
BlockRange(start_block, last_block_number) ==
    [i \in 1..(last_block_number - start_block + 1) |-> Block(start_block + i - 1, 0)]

\* Variant: the provider's errors are propagated with ? and end the task.
TaskBackfillFatal ==
    /\ tpc = "init"
    /\ IF upper_bound = 0
       THEN \E chain_last \in 0..MaxBlockNum, last_ok \in BOOLEAN, range_ok \in BOOLEAN,
               miss \in 0..(MaxBlockNum + 1) :
                LET sealed == IF last_ok /\ range_ok
                              THEN BlockRange(IF chain_last > max_blocks
                                              THEN chain_last - max_blocks ELSE 0, chain_last)
                              ELSE <<>>
                IN /\ miss <= Len(sealed)
                   /\ IF last_ok /\ range_ok
                      THEN /\ OnNewBlocksBegin(sealed, miss)
                           /\ tpc' = "backfill"
                      ELSE /\ tpc' = "ended"
                           /\ UNCHANGED <<max_blocks, resolution, entries, lower_bound, upper_bound,
                                          wpc, wbatch, wmiss, wpre>>
                   /\ tbackfill' = <<[last_ok |-> last_ok, range_ok |-> range_ok,
                                      last_block_number |-> chain_last]>>
       ELSE /\ tpc' = "await"
            /\ tbackfill' = <<>>
            /\ UNCHANGED <<max_blocks, resolution, entries, lower_bound, upper_bound, wpc, wbatch, wmiss, wpre>>
    /\ UNCHANGED <<fed, tevent, tcalls, events, closed>>

\* "Init default state": with upper_bound() == 0 the task reads the last
\* block number (unwrap_or(0) when the provider fails), fetches the blocks
\* start_block..=last_block_number (unwrap_or_default(), none, when the
\* provider fails) and hands them to on_new_blocks.
TaskBackfill ==
    /\ tpc = "init"
    /\ IF upper_bound = 0
       THEN \E chain_last \in 0..MaxBlockNum, last_ok \in BOOLEAN, range_ok \in BOOLEAN,
               miss \in 0..(MaxBlockNum + 1) :
                LET last_block_number == IF last_ok THEN chain_last ELSE 0
                    start_block == IF last_block_number > max_blocks
                                   THEN last_block_number - max_blocks ELSE 0
                    sealed == IF range_ok THEN BlockRange(start_block, last_block_number)
                              ELSE <<>>
                IN /\ miss <= Len(sealed)
                   /\ OnNewBlocksBegin(sealed, miss)
                   /\ tbackfill' = <<[last_ok |-> last_ok, range_ok |-> range_ok,
                                      last_block_number |-> last_block_number]>>
                   /\ tpc' = "backfill"
       ELSE /\ tpc' = "await"
            /\ tbackfill' = <<>>
            /\ UNCHANGED <<max_blocks, resolution, entries, lower_bound, upper_bound, wpc, wbatch, wmiss, wpre>>
    /\ UNCHANGED <<fed, tevent, tcalls, events, closed>>

\* events.next().await yields the oldest notification waiting; what it
\* holds shows when it is taken.
TaskNextEvent ==
    /\ tpc = "await"
    /\ events > 0
    /\ \E event \in Notifications : tevent' = event
    /\ events' = events - 1
    /\ tcalls' = 0
    /\ tpc' = "event"
    /\ UNCHANGED <<tbackfill, closed>>
    /\ UNCHANGED feeVars

\* events.next().await yields None, the stream being closed and drained:
\* the loop and the task end.
TaskStreamEnds ==
    /\ tpc = "await"
    /\ events = 0
    /\ closed
    /\ tpc' = "ended"
    /\ UNCHANGED <<tevent, tcalls, tbackfill, events, closed>>
    /\ UNCHANGED feeVars

\* Variant: a notification without a committed chain ends the loop.
TaskSkipEventReturns ==
    /\ tpc = "event"
    /\ tevent.committed = <<>>
    /\ tpc' = "ended"
    /\ tevent' = Notification(<<>>)
    /\ UNCHANGED <<tcalls, tbackfill, events, closed>>
    /\ UNCHANGED feeVars

\* event.committed() is None: the loop goes on to the next notification.
TaskSkipEvent ==
    /\ tpc = "event"
    /\ tevent.committed = <<>>
    /\ tpc' = "await"
    /\ tevent' = Notification(<<>>)
    /\ UNCHANGED <<tcalls, tbackfill, events, closed>>
    /\ UNCHANGED feeVars

\* event.committed() is a chain: its blocks are collected and handed to
\* on_new_blocks.
TaskIngestEvent ==
    /\ tpc = "event"
    /\ tevent.committed # <<>>
    /\ \E miss \in 0..(MaxBlockNum + 1) :
          LET blocks == MapValues(tevent.committed[1])
          IN /\ miss <= Len(blocks)
             /\ OnNewBlocksBegin(blocks, miss)
    /\ tcalls' = tcalls + 1
    /\ tpc' = "ingest"
    /\ UNCHANGED <<fed, tevent, tbackfill, events, closed>>

\* on_new_blocks(..).await has returned, in the backfill or in the loop.
TaskCallReturns ==
    /\ tpc \in {"backfill", "ingest"}
    /\ wpc = "idle"
    /\ tpc' = "await"
    /\ tbackfill' = <<>>
    /\ tevent' = Notification(<<>>)
    /\ tcalls' = 0
    /\ UNCHANGED <<events, closed>>
    /\ UNCHANGED feeVars

\* The canonical-state sender sends a notification.
StreamSends ==
    /\ ~closed
    /\ events < MaxQueue
    /\ events' = events + 1
    /\ UNCHANGED <<tpc, tevent, tcalls, tbackfill, closed>>
    /\ UNCHANGED feeVars

\* The sender is dropped: the stream ends once it is drained.
StreamCloses ==
    /\ ~closed
    /\ closed' = TRUE
    /\ UNCHANGED <<tpc, tevent, tcalls, tbackfill, events>>
    /\ UNCHANGED feeVars

\* No task running.
InitTask ==
    /\ tpc = "off"
    /\ tevent = Notification(<<>>)
    /\ tcalls = 0
    /\ tbackfill = <<>>
    /\ events = 0
    /\ closed = FALSE

\* ------------------------------------------------------------------ Spec

vars == <<max_blocks, resolution, entries, lower_bound, upper_bound, wpc, wbatch, wmiss, wpre, fed,
          rpc, rs, re, rlb, rresult,
          pending_block, mutex, now, latest, cl_pending, syncing, builds,
          qpc, qorigin, qresult,
          cpc, percentiles, gas_used, transactions, receipts, sorted, tx_index,
          cumulative_gas_used, pnext, rewards_in_block,
          tpc, tevent, tcalls, tbackfill, events, closed>>

Requests == 1..NumRequests

\* A header as far as the pending-block stage reads it.
Header(n, f) == [number |-> n, hash |-> <<n, f>>]

NoHeader == Header(0, 0)

\* EthResult<Option<SealedBlock>>; NoResult while the request is running.
NoResult == [kind |-> "Running", value |-> <<>>]
Ok(option) == [kind |-> "Ok", value |-> option]
Err == [kind |-> "Err", value |-> <<>>]

\* EthApiInner as constructed: no cached pending block.
InitPending ==
    /\ pending_block = <<>>
    /\ mutex = 0
    /\ now = 0
    /\ latest = Header(0, 0)
    /\ cl_pending = FALSE
    /\ syncing = FALSE
    /\ builds = 0
    /\ qpc = [p \in Requests |-> "idle"]
    /\ qorigin = [p \in Requests |-> NoHeader]
    /\ qresult = [p \in Requests |-> NoResult]

\* FeeHistoryCache::new: an empty map, both bounds 0.
InitCache ==
    /\ entries = EmptyMap
    /\ lower_bound = 0
    /\ upper_bound = 0
    /\ wpc = "idle"
    /\ wbatch = <<>>
    /\ wmiss = 0
    /\ wpre = EmptyMap
    /\ fed = 0
    /\ rpc = "idle"
    /\ rs = 0
    /\ re = 0
    /\ rlb = 0
    /\ rresult = None

Init ==
    /\ max_blocks \in 0..MaxCap
    /\ resolution = DefaultResolution
    /\ InitCache
    /\ InitPending
    /\ InitCalc
    /\ InitTask

OnNewBlocks ==
    \E batch \in Batches, miss \in 0..MaxBatch :
        /\ miss <= Len(batch)
        /\ OnNewBlocksBegin(batch, miss)
        /\ UNCHANGED fed

GetHistory ==
    \E s \in 0..MaxBlockNum, e \in 0..MaxBlockNum : GetHistoryStart(s, e)

Next ==
    \/ OnNewBlocks /\ UNCHANGED <<readerVars, pendingVars, calcVars, taskVars>>
    \/ OnNewBlocksEvict /\ UNCHANGED <<readerVars, pendingVars, calcVars, taskVars>>
    \/ OnNewBlocksStoreUpper /\ UNCHANGED <<readerVars, pendingVars, calcVars, taskVars>>
    \/ OnNewBlocksStoreLower /\ UNCHANGED <<readerVars, pendingVars, calcVars, taskVars>>
    \/ GetHistory /\ UNCHANGED <<pendingVars, calcVars, taskVars>>
    \/ GetHistoryCheck /\ UNCHANGED <<pendingVars, calcVars, taskVars>>
    \/ GetHistoryRead /\ UNCHANGED <<pendingVars, calcVars, taskVars>>
    \/ GetHistoryReturn /\ UNCHANGED <<pendingVars, calcVars, taskVars>>

Spec == Init /\ [][Next]_vars

\* ------------------------------------------------------------------ SpecScenario

\* Blocks 1, 2, ... are handed over one per on_new_blocks call, oldest
\* first, and the eth_cache supplies every block's transactions and receipts.
ScenarioInit ==
    /\ max_blocks \in (0..MaxCap) \cup {DefaultMaxBlocks}
    /\ resolution = DefaultResolution
    /\ InitCache
    /\ InitPending
    /\ InitCalc
    /\ InitTask

ScenarioFeed ==
    /\ fed < ScenarioBlocks
    /\ OnNewBlocksBegin(<<Block(fed + 1, 0)>>, 0)
    /\ fed' = fed + 1

ScenarioNext ==
    \/ ScenarioFeed /\ UNCHANGED <<readerVars, pendingVars, calcVars, taskVars>>
    \/ OnNewBlocksEvict /\ UNCHANGED <<readerVars, pendingVars, calcVars, taskVars>>
    \/ OnNewBlocksStoreUpper /\ UNCHANGED <<readerVars, pendingVars, calcVars, taskVars>>
    \/ OnNewBlocksStoreLower /\ UNCHANGED <<readerVars, pendingVars, calcVars, taskVars>>

SpecScenario == ScenarioInit /\ [][ScenarioNext]_vars

\* ------------------------------------------------------------------ SpecRewards

\* The first n receipts' cumulative_gas_used for transactions of gas g[1..n].
RECURSIVE CumulativeGas(_)
CumulativeGas(g) ==
    IF g = <<>> THEN <<>>
    ELSE LET before == CumulativeGas(SubSeq(g, 1, Len(g) - 1))
         IN Append(before, (IF before = <<>> THEN 0 ELSE before[Len(before)]) + g[Len(g)])

\* A call with any percentile list and any block of at most MaxTxs
\* transactions: one receipt per transaction, cumulative gas growing by
\* each transaction's gas.
RewardsInit ==
    /\ max_blocks = DefaultMaxBlocks
    /\ resolution = DefaultResolution
    /\ InitCache
    /\ InitPending
    /\ InitTask
    /\ cpc = "start"
    /\ percentiles \in SeqsUpTo(PercentileValues, MaxPercentiles)
    /\ gas_used \in GasUsedValues
    /\ transactions \in SeqsUpTo(TipValues, MaxTxs)
    /\ receipts \in {CumulativeGas(g) : g \in {q \in SeqsUpTo(GasValues, MaxTxs) : Len(q) = Len(transactions)}}
    /\ sorted = <<>>
    /\ tx_index = 0
    /\ cumulative_gas_used = 0
    /\ pnext = 0
    /\ rewards_in_block = <<>>

RewardsNext ==
    \/ CalculateStart /\ UNCHANGED <<cacheVars, pendingVars, taskVars>>
    \/ CalculateEmptyBlock /\ UNCHANGED <<cacheVars, pendingVars, taskVars>>
    \/ CalculatePercentile /\ UNCHANGED <<cacheVars, pendingVars, taskVars>>
    \/ CalculateReturn /\ UNCHANGED <<cacheVars, pendingVars, taskVars>>

SpecRewards == RewardsInit /\ [][RewardsNext]_vars

\* ------------------------------------------------------------------ SpecTask

\* A cache that on_new_blocks was called on before the task was spawned: it
\* holds block 1.
WarmCache ==
    /\ entries = MapInsert(EmptyMap, 1, FeeHistoryEntryNew(Block(1, 0)))
    /\ lower_bound = 1
    /\ upper_bound = 1
    /\ wpc = "idle"
    /\ wbatch = <<>>
    /\ wmiss = 0
    /\ wpre = EmptyMap
    /\ fed = 0
    /\ rpc = "idle"
    /\ rs = 0
    /\ re = 0
    /\ rlb = 0
    /\ rresult = None

\* The task as spawned, on a cache fresh from FeeHistoryCache::new or on one
\* already fed.
TaskInit ==
    /\ max_blocks \in 0..MaxCap
    /\ resolution = DefaultResolution
    /\ \/ InitCache
       \/ max_blocks >= 1 /\ WarmCache
    /\ InitPending
    /\ InitCalc
    /\ tpc = "init"
    /\ tevent = Notification(<<>>)
    /\ tcalls = 0
    /\ tbackfill = <<>>
    /\ events = 0
    /\ closed = FALSE

TaskNext ==
    \/ TaskBackfill /\ UNCHANGED <<readerVars, pendingVars, calcVars>>
    \/ TaskNextEvent /\ UNCHANGED <<readerVars, pendingVars, calcVars>>
    \/ TaskStreamEnds /\ UNCHANGED <<readerVars, pendingVars, calcVars>>
    \/ TaskSkipEvent /\ UNCHANGED <<readerVars, pendingVars, calcVars>>
    \/ TaskIngestEvent /\ UNCHANGED <<readerVars, pendingVars, calcVars>>
    \/ TaskCallReturns /\ UNCHANGED <<readerVars, pendingVars, calcVars>>
    \/ OnNewBlocksEvict /\ UNCHANGED <<readerVars, pendingVars, calcVars, taskVars>>
    \/ OnNewBlocksStoreUpper /\ UNCHANGED <<readerVars, pendingVars, calcVars, taskVars>>
    \/ OnNewBlocksStoreLower /\ UNCHANGED <<readerVars, pendingVars, calcVars, taskVars>>
    \/ StreamSends /\ UNCHANGED <<readerVars, pendingVars, calcVars>>
    \/ StreamCloses /\ UNCHANGED <<readerVars, pendingVars, calcVars>>

SpecTask == TaskInit /\ [][TaskNext]_vars

\* The steps of the task and of the on_new_blocks call it awaits. The
\* runtime keeps polling a spawned task that can go on, and the write lock
\* and the eth_cache answer it; the stream's sender is under no obligation.
TaskProgress ==
    \/ TaskBackfill /\ UNCHANGED <<readerVars, pendingVars, calcVars>>
    \/ TaskNextEvent /\ UNCHANGED <<readerVars, pendingVars, calcVars>>
    \/ TaskStreamEnds /\ UNCHANGED <<readerVars, pendingVars, calcVars>>
    \/ TaskSkipEvent /\ UNCHANGED <<readerVars, pendingVars, calcVars>>
    \/ TaskIngestEvent /\ UNCHANGED <<readerVars, pendingVars, calcVars>>
    \/ TaskCallReturns /\ UNCHANGED <<readerVars, pendingVars, calcVars>>
    \/ OnNewBlocksEvict /\ UNCHANGED <<readerVars, pendingVars, calcVars, taskVars>>
    \/ OnNewBlocksStoreUpper /\ UNCHANGED <<readerVars, pendingVars, calcVars, taskVars>>
    \/ OnNewBlocksStoreLower /\ UNCHANGED <<readerVars, pendingVars, calcVars, taskVars>>

SpecTaskFair == TaskInit /\ [][TaskNext]_vars /\ WF_vars(TaskProgress)

\* ------------------------------------------------------------------ properties of the fee-history cache

Keys == DOMAIN entries

IsMin(k, S) == k \in S /\ \A j \in S : k <= j
IsMax(k, S) == k \in S /\ \A j \in S : j <= k

\* The blocks of the batch in progress that on_new_blocks got to store:
\* all of them, or those before the first one the eth_cache could not supply.
StoredPrefix == IF wmiss = 0 THEN wbatch ELSE SubSeq(wbatch, 1, wmiss - 1)

PrefixNumbers == {StoredPrefix[i].number : i \in 1..Len(StoredPrefix)}

\* The last block numbered n among the stored prefix.
LastOf(n) ==
    StoredPrefix[CHOOSE i \in 1..Len(StoredPrefix) :
        /\ StoredPrefix[i].number = n
        /\ \A j \in (i + 1)..Len(StoredPrefix) : StoredPrefix[j].number # n]

\* C1: whenever no on_new_blocks call is in progress, the store holds at
\* most max_blocks entries.
C1_SizeWithinMaxBlocks ==
    wpc = "idle" => Cardinality(Keys) <= max_blocks

\* A finished call that had to evict: the store is full and block 0 is gone.
C1_Witness ==
    /\ wpc = "idle"
    /\ max_blocks >= 2
    /\ Cardinality(Keys) = max_blocks
    /\ lower_bound >= 1

\* C2: after every completed on_new_blocks call lower_bound is the smallest
\* and upper_bound the largest block number in the store, and both are 0
\* when the store is empty.
C2_BoundsAreMinMax ==
    wpc = "idle" =>
        IF Keys = {} THEN lower_bound = 0 /\ upper_bound = 0
        ELSE IsMin(lower_bound, Keys) /\ IsMax(upper_bound, Keys)

C2_Witness ==
    /\ wpc = "idle"
    /\ Cardinality(Keys) >= 2
    /\ lower_bound >= 1
    /\ upper_bound > lower_bound

\* C3: a get_history(s, e) call that finds s below the lower bound it
\* loaded, or e above the upper bound it loads, returns None and does not
\* go on to read the map.
C3_OutOfBoundsIsNone ==
    [][(rpc = "load_upper" /\ rpc' # rpc /\ (rs < rlb \/ re > upper_bound))
        => (rpc' = "done" /\ rresult'.kind = "None")]_vars

C3_Witness ==
    /\ rpc = "done"
    /\ rresult.kind = "None"
    /\ wpc = "idle"
    /\ Keys # {}
    /\ rs >= lower_bound
    /\ re > upper_bound

\* C4 (as claimed): a get_history(start, end) call that reads a non-empty
\* store whose bounds, at the moment of the read, include start..end
\* returns only entries of blocks numbered start..end.
C4_OnlyRequestedRange ==
    [][(/\ rpc = "read" /\ rpc' = "done"
        /\ Keys # {}
        /\ rs >= lower_bound /\ re <= upper_bound /\ rs <= re
        /\ rresult'.kind = "Some")
        => \A i \in 1..Len(rresult'.items) :
              LET n == HashNumber(rresult'.items[i].header_hash)
              IN rs <= n /\ n <= re]_vars

\* C5 (as claimed): a get_history(s, e) call that reads a non-empty store
\* whose bounds, at the moment of the read, include s..e returns an entry
\* for every block number of s..e.
C5_EveryRequestedBlock ==
    [][(/\ rpc = "read" /\ rpc' = "done"
        /\ Keys # {}
        /\ rs >= lower_bound /\ re <= upper_bound /\ rs <= re
        /\ rresult'.kind = "Some")
        => \A n \in rs..re :
              \E i \in 1..Len(rresult'.items) :
                  HashNumber(rresult'.items[i].header_hash) = n]_vars

\* C6: eviction keeps exactly the max_blocks largest block numbers of the
\* entries held before it, with their entries, whatever the insertion order.
C6_EvictsSmallestFirst ==
    [][(wpc = "evict" /\ wpc' = "store_upper") =>
        /\ DOMAIN entries' \subseteq Keys
        /\ Cardinality(DOMAIN entries') =
              (IF Cardinality(Keys) > max_blocks THEN max_blocks ELSE Cardinality(Keys))
        /\ \A a \in DOMAIN entries', b \in Keys \ DOMAIN entries' : a > b
        /\ \A a \in DOMAIN entries' : entries'[a] = entries[a]]_vars

\* Eviction has run on a batch that was inserted newest first, and has
\* removed the older block, which was inserted last.
C6_Witness ==
    /\ wpc = "store_upper"
    /\ wmiss = 0
    /\ Len(wbatch) = 2
    /\ wbatch[1].number > wbatch[2].number
    /\ max_blocks >= 1
    /\ wbatch[1].number \in Keys
    /\ wbatch[2].number \notin Keys

\* C7 (as claimed): N consecutive blocks from 1, one per call, capacity
\* M < N: lower bound N - M, upper bound N, length M. Stated for M >= 1.
C7_ScenarioAsClaimed ==
    (wpc = "idle" /\ max_blocks >= 1 /\ max_blocks < fed) =>
        /\ lower_bound = fed - max_blocks
        /\ upper_bound = fed
        /\ Cardinality(Keys) = max_blocks

\* C7 (amended): N consecutive blocks from 1, one per call, capacity M with
\* 1 <= M < N: lower bound N - M + 1, upper bound N, length M, for every N up
\* to ScenarioBlocks; blocks 1..2000 with max_blocks = 1024 end with
\* lower_bound 977, upper_bound 2000 and 1024 entries.
C7_ScenarioAmended ==
    /\ (wpc = "idle" /\ max_blocks >= 1 /\ max_blocks < fed) =>
          /\ lower_bound = fed - max_blocks + 1
          /\ upper_bound = fed
          /\ Cardinality(Keys) = max_blocks
    /\ (wpc = "idle" /\ max_blocks = 1024 /\ fed = 2000) =>
          /\ lower_bound = 977
          /\ upper_bound = 2000
          /\ Cardinality(Keys) = 1024

C7_Witness ==
    /\ wpc = "idle"
    /\ max_blocks >= 2
    /\ fed > max_blocks + 1
    /\ lower_bound = fed - max_blocks + 1
    /\ upper_bound = fed

\* C8: when the eth_cache cannot supply the k-th block of a batch, the
\* store holds, after the loop, the entries it held before plus exactly
\* the first k-1 blocks of the batch; eviction then runs as for any batch,
\* and the call ends with the bounds at the smallest and largest key left.
C8_TruncatedBatch ==
    /\ [](wpc = "evict" /\ wmiss >= 1 =>
            /\ Keys = DOMAIN wpre \cup PrefixNumbers
            /\ \A n \in Keys :
                  entries[n] = IF n \in PrefixNumbers
                               THEN [header_hash |-> LastOf(n).hash]
                               ELSE wpre[n])
    /\ [][(wpc = "evict" /\ wmiss >= 1 /\ wpc' # wpc) =>
            /\ wpc' = "store_upper"
            /\ Cardinality(DOMAIN entries') <= max_blocks
            /\ \A a \in DOMAIN entries', b \in Keys \ DOMAIN entries' : a > b]_vars
    /\ [][(wpc = "store_lower" /\ wmiss >= 1 /\ wpc' # wpc) =>
            /\ wpc' = "idle"
            /\ entries' = entries
            /\ IF Keys = {} THEN lower_bound' = 0 /\ upper_bound' = 0
               ELSE IsMin(lower_bound', Keys) /\ IsMax(upper_bound', Keys)]_vars

\* The second block of a batch was missing: the first is stored, the
\* second is not, and eviction has removed the store's oldest entry (the
\* bounds still show it).
C8_Witness ==
    /\ wpc = "store_upper"
    /\ Len(wbatch) = 2
    /\ wmiss = 2
    /\ wbatch[1].number # wbatch[2].number
    /\ wbatch[1].number \in Keys
    /\ wbatch[2].number \notin Keys
    /\ upper_bound >= 1
    /\ lower_bound \notin Keys
    /\ Cardinality(Keys) = max_blocks

\* C9 (as claimed): a get_history(s, e) call returns entries only if, at
\* the moment it reads the map, s..e lies within the map's smallest and
\* largest key. Stated for a call that loaded its lower bound from a store
\* that held blocks (a lower bound of at least 1), asks for s <= e and reads
\* a non-empty map.
C9_RevalidatedRead ==
    [][(/\ rpc = "read" /\ rpc' = "done"
        /\ rlb >= 1 /\ Keys # {} /\ rs <= re
        /\ rresult'.kind = "Some")
        => (rs >= FirstKey(entries) /\ re <= LastKey(entries))]_vars

\* ------------------------------------------------------------------ local_pending_block

\* PendingBlockEnvOrigin::DerivedFromLatest: the latest header with its
\* number raised by one; its sealed hash stays the latest header's hash.
DerivedFromLatest(header) == [number |-> header.number + 1, hash |-> header.hash]

\* The pending block the provider hands out when it has one.
ActualPending(header) == [number |-> header.number + 1, parent_hash |-> header.hash, id |-> 0]

\* PendingBlockEnv::build_block: a block on top of the origin; id tells the
\* builds apart.
BuildBlock(origin, id) == [number |-> origin.number, parent_hash |-> origin.hash, id |-> id]

\* Variant: now < expires_at in place of now <= expires_at.
StillGoodStrictExpiry(origin, cached, instant) ==
    /\ origin.number = cached.block.number
    /\ origin.hash = cached.block.parent_hash
    /\ instant < cached.expires_at

\* "check if the block is still good": block_env.number, filled from the
\* origin's header, against the cached block's number; the origin's hash
\* against its parent hash; now <= expires_at.
StillGood(origin, cached, instant) ==
    /\ origin.number = cached.block.number
    /\ origin.hash = cached.block.parent_hash
    /\ instant <= cached.expires_at

\* Variant: the actual pending block is also written to the slot.
ReturnActualPendingCaching(p) ==
    /\ qpc[p] = "idle"
    /\ cl_pending
    /\ qresult' = [qresult EXCEPT ![p] = Ok(<<ActualPending(latest)>>)]
    /\ pending_block' = <<[block |-> ActualPending(latest), expires_at |-> now + PendingTtl]>>
    /\ qpc' = [qpc EXCEPT ![p] = "done"]
    /\ UNCHANGED <<mutex, builds, qorigin, providerVars>>

\* pending_block_env_and_cfg with an actual pending block: it is returned
\* before the mutex is touched.
ReturnActualPending(p) ==
    /\ qpc[p] = "idle"
    /\ cl_pending
    /\ qresult' = [qresult EXCEPT ![p] = Ok(<<ActualPending(latest)>>)]
    /\ qpc' = [qpc EXCEPT ![p] = "done"]
    /\ UNCHANGED <<pending_block, mutex, builds, qorigin, providerVars>>

\* pending_block_env_and_cfg without one: the origin is derived from the
\* latest header, and the request goes on to the blocking task.
ResolveDerived(p) ==
    /\ qpc[p] = "idle"
    /\ ~cl_pending
    /\ qorigin' = [qorigin EXCEPT ![p] = DerivedFromLatest(latest)]
    /\ qpc' = [qpc EXCEPT ![p] = "lock"]
    /\ UNCHANGED <<pending_block, mutex, builds, qresult, providerVars>>

\* pending_block_env_and_cfg()?: a provider error, or no latest header.
ResolveFails(p) ==
    /\ qpc[p] = "idle"
    /\ qresult' = [qresult EXCEPT ![p] = Err]
    /\ qpc' = [qpc EXCEPT ![p] = "done"]
    /\ UNCHANGED <<pending_block, mutex, builds, qorigin, providerVars>>

\* lock().await, the check succeeds: the cached block is returned and the
\* guard dropped.
ReturnCached(p) ==
    /\ qpc[p] = "lock"
    /\ mutex = 0
    /\ pending_block # <<>>
    /\ StillGood(qorigin[p], pending_block[1], now)
    /\ qresult' = [qresult EXCEPT ![p] = Ok(<<pending_block[1].block>>)]
    /\ qpc' = [qpc EXCEPT ![p] = "done"]
    /\ UNCHANGED <<pending_block, mutex, builds, qorigin, providerVars>>

\* lock().await, the check fails, the network is syncing: Ok(None).
ReturnNoneWhileSyncing(p) ==
    /\ qpc[p] = "lock"
    /\ mutex = 0
    /\ ~(pending_block # <<>> /\ StillGood(qorigin[p], pending_block[1], now))
    /\ syncing
    /\ qresult' = [qresult EXCEPT ![p] = Ok(<<>>)]
    /\ qpc' = [qpc EXCEPT ![p] = "done"]
    /\ UNCHANGED <<pending_block, mutex, builds, qorigin, providerVars>>

\* Variant: is_syncing is not consulted.
StartBuildWhileSyncing(p) ==
    /\ qpc[p] = "lock"
    /\ mutex = 0
    /\ ~(pending_block # <<>> /\ StillGood(qorigin[p], pending_block[1], now))
    /\ mutex' = p
    /\ builds' = builds + 1
    /\ qpc' = [qpc EXCEPT ![p] = "build"]
    /\ UNCHANGED <<pending_block, qorigin, qresult, providerVars>>

\* Variant: the build starts without waiting for the mutex.
StartBuildUnlocked(p) ==
    /\ qpc[p] = "lock"
    /\ ~(pending_block # <<>> /\ StillGood(qorigin[p], pending_block[1], now))
    /\ ~syncing
    /\ mutex' = p
    /\ builds' = builds + 1
    /\ qpc' = [qpc EXCEPT ![p] = "build"]
    /\ UNCHANGED <<pending_block, qorigin, qresult, providerVars>>

\* Variant: the block is rebuilt whatever the slot holds.
StartBuildAlways(p) ==
    /\ qpc[p] = "lock"
    /\ mutex = 0
    /\ ~syncing
    /\ mutex' = p
    /\ builds' = builds + 1
    /\ qpc' = [qpc EXCEPT ![p] = "build"]
    /\ UNCHANGED <<pending_block, qorigin, qresult, providerVars>>

\* lock().await, the check fails, the network is not syncing: the block is
\* rebuilt with the guard held.
StartBuild(p) ==
    /\ qpc[p] = "lock"
    /\ mutex = 0
    /\ ~(pending_block # <<>> /\ StillGood(qorigin[p], pending_block[1], now))
    /\ ~syncing
    /\ mutex' = p
    /\ builds' = builds + 1
    /\ qpc' = [qpc EXCEPT ![p] = "build"]
    /\ UNCHANGED <<pending_block, qorigin, qresult, providerVars>>

\* Variant: expires_at is the time of caching, with no time to live added.
BuildSucceedsNoTtl(p) ==
    /\ qpc[p] = "build"
    /\ LET block == BuildBlock(qorigin[p], builds)
       IN /\ pending_block' = <<[block |-> block, expires_at |-> now]>>
          /\ qresult' = [qresult EXCEPT ![p] = Ok(<<block>>)]
    /\ mutex' = 0
    /\ qpc' = [qpc EXCEPT ![p] = "done"]
    /\ UNCHANGED <<builds, qorigin, providerVars>>

\* build_block returned Ok: the block is cached until Instant::now() + 3 s
\* and returned.
BuildSucceeds(p) ==
    /\ qpc[p] = "build"
    /\ LET block == BuildBlock(qorigin[p], builds)
       IN /\ pending_block' = <<[block |-> block, expires_at |-> now + PendingTtl]>>
          /\ qresult' = [qresult EXCEPT ![p] = Ok(<<block>>)]
    /\ mutex' = 0
    /\ qpc' = [qpc EXCEPT ![p] = "done"]
    /\ UNCHANGED <<builds, qorigin, providerVars>>

\* Variant: a failed build clears the slot.
BuildFailsClearsSlot(p) ==
    /\ qpc[p] = "build"
    /\ qresult' = [qresult EXCEPT ![p] = Ok(<<>>)]
    /\ pending_block' = <<>>
    /\ mutex' = 0
    /\ qpc' = [qpc EXCEPT ![p] = "done"]
    /\ UNCHANGED <<builds, qorigin, providerVars>>

\* build_block returned Err: logged, Ok(None).
BuildFails(p) ==
    /\ qpc[p] = "build"
    /\ qresult' = [qresult EXCEPT ![p] = Ok(<<>>)]
    /\ mutex' = 0
    /\ qpc' = [qpc EXCEPT ![p] = "done"]
    /\ UNCHANGED <<pending_block, builds, qorigin, providerVars>>

\* The collaborators: the clock, the chain head, the consensus layer, the
\* network.
Tick ==
    /\ now < MaxTime
    /\ now' = now + 1
    /\ UNCHANGED <<latest, cl_pending, syncing>>

NewHead ==
    /\ latest.number < MaxHead
    /\ latest' = Header(latest.number + 1, 0)
    /\ UNCHANGED <<now, cl_pending, syncing>>

Reorg ==
    /\ latest.hash[2] = 0
    /\ latest' = Header(latest.number, 1)
    /\ UNCHANGED <<now, cl_pending, syncing>>

SetClPending ==
    /\ cl_pending' = ~cl_pending
    /\ UNCHANGED <<now, latest, syncing>>

SetSyncing ==
    /\ syncing' = ~syncing
    /\ UNCHANGED <<now, latest, cl_pending>>

requestVars == <<pending_block, mutex, builds, qpc, qorigin, qresult>>

PendingInit ==
    /\ max_blocks = DefaultMaxBlocks
    /\ resolution = DefaultResolution
    /\ InitCache
    /\ InitPending
    /\ InitCalc
    /\ InitTask

PendingNext ==
    \/ \E p \in Requests : ReturnActualPending(p) /\ UNCHANGED <<cacheVars, calcVars, taskVars>>
    \/ \E p \in Requests : ResolveDerived(p) /\ UNCHANGED <<cacheVars, calcVars, taskVars>>
    \/ \E p \in Requests : ResolveFails(p) /\ UNCHANGED <<cacheVars, calcVars, taskVars>>
    \/ \E p \in Requests : ReturnCached(p) /\ UNCHANGED <<cacheVars, calcVars, taskVars>>
    \/ \E p \in Requests : ReturnNoneWhileSyncing(p) /\ UNCHANGED <<cacheVars, calcVars, taskVars>>
    \/ \E p \in Requests : StartBuild(p) /\ UNCHANGED <<cacheVars, calcVars, taskVars>>
    \/ \E p \in Requests : BuildSucceeds(p) /\ UNCHANGED <<cacheVars, calcVars, taskVars>>
    \/ \E p \in Requests : BuildFails(p) /\ UNCHANGED <<cacheVars, calcVars, taskVars>>
    \/ Tick /\ UNCHANGED <<cacheVars, requestVars, calcVars, taskVars>>
    \/ NewHead /\ UNCHANGED <<cacheVars, requestVars, calcVars, taskVars>>
    \/ Reorg /\ UNCHANGED <<cacheVars, requestVars, calcVars, taskVars>>
    \/ SetClPending /\ UNCHANGED <<cacheVars, requestVars, calcVars, taskVars>>
    \/ SetSyncing /\ UNCHANGED <<cacheVars, requestVars, calcVars, taskVars>>

SpecPending == PendingInit /\ [][PendingNext]_vars

\* ------------------------------------------------------------------ properties of the pending-block stage

\* C10: a request with a derived origin that takes the mutex while the slot
\* holds a block whose number is the origin's child number, whose parent
\* hash is the origin's hash and whose expires_at has not passed returns
\* that block, dispatches no build and leaves the slot as it is.
C10_ReuseCached ==
    [][\A p \in Requests :
        (/\ qpc[p] = "lock" /\ qpc'[p] # "lock"
         /\ pending_block # <<>>
         /\ pending_block[1].block.number = qorigin[p].number
         /\ pending_block[1].block.parent_hash = qorigin[p].hash
         /\ now <= pending_block[1].expires_at)
        => /\ qpc'[p] = "done"
           /\ qresult'[p] = Ok(<<pending_block[1].block>>)
           /\ pending_block' = pending_block
           /\ builds' = builds
           /\ mutex' = 0]_vars

\* Every request holds the block of the only build, which is still cached
\* and at the last instant of its life: all but the builder were served
\* from the slot.
C10_Witness ==
    /\ builds = 1
    /\ pending_block # <<>>
    /\ now = pending_block[1].expires_at
    /\ \A p \in Requests :
          qpc[p] = "done" /\ qresult[p] = Ok(<<pending_block[1].block>>)

\* The freshness check of local_pending_block fails for request p: the slot
\* is empty, or its block is not the child of p's origin, or it has expired.
StaleFor(p) ==
    \/ pending_block = <<>>
    \/ pending_block[1].block.number # qorigin[p].number
    \/ pending_block[1].block.parent_hash # qorigin[p].hash
    \/ now > pending_block[1].expires_at

\* C11: a derived-origin request that takes the mutex while the slot is
\* empty, expired or not the child of its origin, with the network not
\* syncing, dispatches a build; when the build succeeds the slot holds the
\* block built on the request's origin with expires_at = the time of caching
\* + 3, and the request returns that block.
C11_Rebuild ==
    /\ [][\A p \in Requests :
            (qpc[p] = "lock" /\ qpc'[p] # "lock" /\ StaleFor(p) /\ ~syncing)
            => /\ qpc'[p] = "build"
               /\ builds' = builds + 1
               /\ mutex' = p]_vars
    /\ [][\A p \in Requests :
            (qpc[p] = "build" /\ qpc'[p] = "done" /\ qresult'[p].value # <<>>)
            => /\ qresult'[p].kind = "Ok"
               /\ qresult'[p].value[1].number = qorigin[p].number
               /\ qresult'[p].value[1].parent_hash = qorigin[p].hash
               /\ qresult'[p].value[1].id = builds
               /\ pending_block' = <<[block |-> qresult'[p].value[1],
                                      expires_at |-> now' + 3]>>]_vars

\* A second build has replaced an expired block of the same origin: the
\* slot holds build 2, cached at time 4 or later.
C11_Witness ==
    /\ builds = 2
    /\ pending_block # <<>>
    /\ pending_block[1].block.id = 2
    /\ pending_block[1].expires_at > 2 * PendingTtl
    /\ \E p \in Requests : qresult[p] = Ok(<<pending_block[1].block>>)
    /\ \E p \in Requests : qresult[p].value # <<>> /\ qresult[p].value[1].id = 1
    /\ qorigin[1] = qorigin[2]

\* C12: a request that finds the provider holding an actual pending block
\* and does not fail on a provider error returns that block at once; it
\* dispatches no build, does not take the mutex and leaves the slot as it is.
C12_ActualPendingDirect ==
    [][\A p \in Requests :
        (qpc[p] = "idle" /\ qpc'[p] # "idle" /\ cl_pending)
        => /\ qpc'[p] = "done"
           /\ qresult'[p] \in {Ok(<<ActualPending(latest)>>), Err}
           /\ builds' = builds
           /\ mutex' = mutex
           /\ pending_block' = pending_block]_vars

\* An actual pending block was returned while another request was building
\* and a built block of the old head was cached.
C12_Witness ==
    \E p \in Requests, q \in Requests :
        /\ qpc[p] = "done"
        /\ qresult[p].kind = "Ok"
        /\ qresult[p].value # <<>>
        /\ qresult[p].value[1].id = 0
        /\ qpc[q] = "build"
        /\ mutex = q

\* C13: a build is dispatched only while the network is not syncing; a
\* derived-origin request that takes the mutex while the network is syncing
\* and the slot is empty, expired or not the child of its origin returns
\* Ok(None) and leaves the slot as it is.
C13_NoBuildWhileSyncing ==
    /\ [][builds' # builds => ~syncing]_vars
    /\ [][\A p \in Requests :
            (qpc[p] = "lock" /\ qpc'[p] # "lock" /\ StaleFor(p) /\ syncing)
            => /\ qpc'[p] = "done"
               /\ qresult'[p] = Ok(<<>>)
               /\ pending_block' = pending_block
               /\ builds' = builds
               /\ mutex' = mutex]_vars

\* A request got Ok(None) without any build having been dispatched, while
\* the network is syncing.
C13_Witness ==
    /\ syncing
    /\ builds = 0
    /\ \E p \in Requests : qpc[p] = "done" /\ qresult[p] = Ok(<<>>)

\* C14: a build that ends ends the request with Ok, never with an error,
\* and one that ends with Ok(None), a failed build, leaves the slot as it
\* was before the build.
C14_FailedBuildKeepsSlot ==
    [][\A p \in Requests :
        (qpc[p] = "build" /\ qpc'[p] # "build")
        => /\ qpc'[p] = "done"
           /\ qresult'[p].kind = "Ok"
           /\ (qresult'[p].value = <<>> => pending_block' = pending_block)]_vars

\* Two builds were dispatched, the first one's block is still in the slot
\* and the other request got Ok(None): the second build failed and left the
\* slot alone.
C14_Witness ==
    /\ builds = 2
    /\ pending_block # <<>>
    /\ pending_block[1].block.id = 1
    /\ \E p \in Requests : qpc[p] = "done" /\ qresult[p] = Ok(<<pending_block[1].block>>)
    /\ \E p \in Requests : qpc[p] = "done" /\ qresult[p] = Ok(<<>>)

\* C15: at most one request is building at any time, and the request that
\* is building holds the mutex; no other request gets past the mutex until
\* the build has ended.
C15_OneBuildAtATime ==
    /\ [](\A p \in Requests, q \in Requests :
            (qpc[p] = "build" /\ qpc[q] = "build") => p = q)
    /\ [](\A p \in Requests : qpc[p] = "build" <=> mutex = p)
    /\ [][\A p \in Requests, q \in Requests :
            (qpc[p] = "build" /\ q # p /\ qpc[q] = "lock") => qpc'[q] = "lock"]_vars

\* One request is building while every other one waits for the mutex.
C15_Witness ==
    \E p \in Requests :
        /\ qpc[p] = "build"
        /\ mutex = p
        /\ \A q \in Requests \ {p} : qpc[q] = "lock" /\ qorigin[q] = qorigin[p]

\* C16: when every request has resolved the same derived origin and has
\* returned a block no later than PendingTtl after the start, which is
\* within the life of any block cached since, exactly one build was
\* dispatched and every request holds that build's block.
C16_Coalesced ==
    (/\ \A p \in Requests :
            /\ qpc[p] = "done"
            /\ qorigin[p] # NoHeader
            /\ qorigin[p] = qorigin[1]
            /\ qresult[p].kind = "Ok"
            /\ qresult[p].value # <<>>
     /\ now <= PendingTtl)
    => /\ builds = 1
       /\ pending_block # <<>>
       /\ pending_block[1].block.id = 1
       /\ \A p \in Requests : qresult[p] = Ok(<<pending_block[1].block>>)

\* All requests resolved one origin before any build ended, and all hold
\* the block of the only build, the last of them at the end of its life.
C16_Witness ==
    /\ builds = 1
    /\ pending_block # <<>>
    /\ now = PendingTtl
    /\ pending_block[1].expires_at = PendingTtl
    /\ \A p \in Requests :
          /\ qpc[p] = "done"
          /\ qorigin[p] = qorigin[1]
          /\ qresult[p] = Ok(<<pending_block[1].block>>)

\* ------------------------------------------------------------------ properties of the percentile calculator

NonDecreasing(q) == \A i \in 1..(Len(q) - 1) : q[i] <= q[i + 1]

StrictlyIncreasing(q) == \A i \in 1..(Len(q) - 1) : q[i] < q[i + 1]

\* C17: the result has one reward per percentile taken, each iteration
\* appending one reward behind those of the percentiles before it, so the
\* returned list has the length and the order of the percentile list; for
\* an empty transaction list every reward is zero.
C17_OneRewardPerPercentile ==
    /\ [](cpc \in {"loop", "done"} => Len(rewards_in_block) = pnext)
    /\ [](cpc = "done" => Len(rewards_in_block) = Len(percentiles))
    /\ [][(cpc = "loop" /\ pnext' # pnext) =>
            /\ pnext' = pnext + 1
            /\ Len(rewards_in_block') = Len(rewards_in_block) + 1
            /\ SubSeq(rewards_in_block', 1, Len(rewards_in_block)) = rewards_in_block]_vars
    /\ [](cpc = "done" /\ transactions = <<>> =>
            \A i \in 1..Len(rewards_in_block) : rewards_in_block[i] = 0)

\* A call for several percentiles on an empty block has returned zeros.
C17_Witness ==
    /\ cpc = "done"
    /\ transactions = <<>>
    /\ Len(percentiles) >= 2
    /\ Len(rewards_in_block) = Len(percentiles)
    /\ \A i \in 1..Len(rewards_in_block) : rewards_in_block[i] = 0

\* C18: the list the cursor runs over is in ascending order of reward, the
\* cursor stays within 0..len - 1 and never moves backwards, and for a
\* strictly increasing percentile list the rewards are non-decreasing.
C18_NonDecreasingRewards ==
    /\ [](cpc \in {"loop", "done"} =>
            \A i \in 1..(Len(sorted) - 1) : sorted[i].reward <= sorted[i + 1].reward)
    /\ [](cpc \in {"loop", "done"} /\ sorted # <<>> =>
            tx_index >= 0 /\ tx_index <= Len(sorted) - 1)
    /\ [][cpc = "loop" => tx_index' >= tx_index]_vars
    /\ [](StrictlyIncreasing(percentiles) => NonDecreasing(rewards_in_block))

\* A call with strictly increasing percentiles on a block given in
\* descending order of tip has moved the cursor to the last transaction and
\* returned growing rewards.
C18_Witness ==
    /\ cpc = "done"
    /\ Len(percentiles) = 3
    /\ StrictlyIncreasing(percentiles)
    /\ Len(transactions) = 3
    /\ transactions[1] > transactions[2]
    /\ transactions[2] > transactions[3]
    /\ tx_index = 2
    /\ rewards_in_block[1] < rewards_in_block[2]
    /\ rewards_in_block[2] < rewards_in_block[3]

\* The gas of the i-th transaction of the block: its receipt's cumulative
\* gas minus the previous receipt's.
IndividualGas(i) == receipts[i] - (IF i = 1 THEN 0 ELSE receipts[i - 1])

\* The gas of the block's transactions 1..n whose tip is at most t.
RECURSIVE GasUpToTip(_, _)
GasUpToTip(t, n) ==
    IF n = 0 THEN 0
    ELSE GasUpToTip(t, n - 1) + (IF transactions[n] <= t THEN IndividualGas(n) ELSE 0)

\* The re-scan for one percentile: in ascending order of tip the running sum
\* of gas first reaches the threshold at the smallest tip t for which the
\* transactions of tip at most t hold that much gas; the highest tip when
\* no tip does.
Rescan(percentile) ==
    LET n == Len(transactions)
        tips == {transactions[i] : i \in 1..n}
        threshold == (gas_used * percentile) \div 100
        reaching == {t \in tips : GasUpToTip(t, n) >= threshold}
    IN IF reaching # {}
       THEN CHOOSE t \in reaching : \A u \in reaching : t <= u
       ELSE CHOOSE t \in tips : \A u \in tips : u <= t

\* C19: for a block with transactions and a percentile list in increasing
\* order, every reward emitted is what the re-scan gives for its
\* percentile; cumulative gas [30,60,90], tips [5,1,9], gas used 90 and
\* percentiles [0,50,100] give [1,5,9].
C19_EqualsRescan ==
    /\ (cpc \in {"loop", "done"} /\ transactions # <<>> /\ NonDecreasing(percentiles)) =>
          \A i \in 1..Len(rewards_in_block) : rewards_in_block[i] = Rescan(percentiles[i])
    /\ (/\ cpc = "done"
        /\ receipts = <<30, 60, 90>>
        /\ transactions = <<5, 1, 9>>
        /\ gas_used = 90
        /\ percentiles = <<0, 50, 100>>) => rewards_in_block = <<1, 5, 9>>

\* The example of the spec has been computed.
C19_Witness ==
    /\ cpc = "done"
    /\ receipts = <<30, 60, 90>>
    /\ transactions = <<5, 1, 9>>
    /\ gas_used = 90
    /\ percentiles = <<0, 50, 100>>
    /\ rewards_in_block = <<1, 5, 9>>

\* ------------------------------------------------------------------ properties of the ingestion task

\* C20: once the task is in its loop, taking a notification from the stream
\* and passing over one without a committed chain leave the entries and the
\* two bounds as they are and start no on_new_blocks call; a notification
\* with a committed chain starts one call, with the chain's blocks in the
\* chain's order, and no further call is made before the next notification.
C20_OnlyCommittedIngested ==
    /\ [][(tpc \in {"await", "event"} /\ (tpc = "event" => tevent.committed = <<>>)) =>
            /\ entries' = entries
            /\ lower_bound' = lower_bound
            /\ upper_bound' = upper_bound
            /\ wpc' = "idle"
            /\ tcalls' <= tcalls]_vars
    /\ [][(tpc = "event" /\ tevent.committed # <<>> /\ tpc' # tpc) =>
            LET chain == tevent.committed[1]
                lowest == CHOOSE k \in DOMAIN chain : \A j \in DOMAIN chain : k <= j
            IN /\ tpc' = "ingest"
               /\ wpc = "idle" /\ wpc' = "evict"
               /\ tcalls' = 1
               /\ Len(wbatch') = Cardinality(DOMAIN chain)
               /\ \A i \in 1..Len(wbatch') : wbatch'[i] = chain[lowest + i - 1]]_vars
    /\ [][(wpc = "idle" /\ wpc' # "idle") =>
            (tpc = "init" \/ (tpc = "event" /\ tevent.committed # <<>>))]_vars
    /\ [][(tpc = "ingest" /\ tpc' # tpc /\ tevent.committed # <<>>) =>
            (tpc' = "await" /\ tcalls = 1)]_vars

\* The one call made for a committed chain of two or more blocks of a
\* competing fork has ended, and the store holds all of them.
C20_Witness ==
    /\ tpc = "ingest"
    /\ wpc = "idle"
    /\ tcalls = 1
    /\ tevent.committed # <<>>
    /\ Cardinality(DOMAIN tevent.committed[1]) >= 2
    /\ \A n \in DOMAIN tevent.committed[1] :
          /\ n \in Keys
          /\ entries[n].header_hash = <<n, 1>>

\* The backfill has taken the range [max(0, last - max_blocks), last] to
\* on_new_blocks: the step out of "init" on a cold cache.
BackfillRangeIngested ==
    [][(tpc = "init" /\ tpc' = "backfill" /\ tbackfill'[1].range_ok) =>
        LET last == tbackfill'[1].last_block_number
            first == IF last - max_blocks > 0 THEN last - max_blocks ELSE 0
        IN /\ wpc' = "evict"
           /\ Len(wbatch') = last - first + 1
           /\ \A i \in 1..Len(wbatch') : wbatch'[i].number = first + i - 1]_vars

\* The backfill runs at most once, as the task's first step, and only on a
\* cache whose upper bound is 0; a cache with another upper bound is left
\* as it is.
BackfillOnceIfCold ==
    /\ [][tpc' = "init" => tpc = "init"]_vars
    /\ [][(tpc' = "backfill" /\ tpc # "backfill") => (tpc = "init" /\ upper_bound = 0)]_vars
    /\ [][(tpc = "init" /\ tpc' # tpc) =>
            IF upper_bound = 0 THEN tpc' = "backfill"
            ELSE /\ tpc' = "await"
                 /\ entries' = entries /\ wpc' = wpc
                 /\ lower_bound' = lower_bound /\ upper_bound' = upper_bound]_vars

\* C21 (as claimed): the backfill runs once, at the start, only on upper
\* bound 0, with the range [max(0, last - max_blocks), last] in ascending
\* order; when the range was fetched and the eth_cache supplied every block,
\* the call ends with at most max_blocks entries and upper_bound = last.
C21_BackfillAsClaimed ==
    /\ BackfillOnceIfCold
    /\ BackfillRangeIngested
    /\ [][(/\ tpc = "backfill" /\ wpc = "store_lower" /\ wpc' = "idle"
           /\ tbackfill[1].range_ok /\ wmiss = 0) =>
            /\ Cardinality(DOMAIN entries') <= max_blocks
            /\ upper_bound' = tbackfill[1].last_block_number]_vars

\* C21 (amended): as claimed, with the end state stated for max_blocks >= 1;
\* with max_blocks = 0 every block is evicted again and both bounds end at 0.
C21_BackfillAmended ==
    /\ BackfillOnceIfCold
    /\ BackfillRangeIngested
    /\ [][(/\ tpc = "backfill" /\ wpc = "store_lower" /\ wpc' = "idle"
           /\ tbackfill[1].range_ok /\ wmiss = 0) =>
            /\ Cardinality(DOMAIN entries') <= max_blocks
            /\ IF max_blocks >= 1
               THEN upper_bound' = tbackfill[1].last_block_number
               ELSE DOMAIN entries' = {} /\ upper_bound' = 0 /\ lower_bound' = 0]_vars

\* A backfill of more blocks than the store may hold has ended: the oldest
\* block of the range is evicted and the upper bound is the last block.
C21_Witness ==
    /\ tpc = "backfill"
    /\ wpc = "idle"
    /\ tbackfill[1].range_ok
    /\ tbackfill[1].last_block_number = 2
    /\ max_blocks = 2
    /\ resolution = DefaultResolution
    /\ Keys = {1, 2}
    /\ lower_bound = 1
    /\ upper_bound = 2

\* C22: a failed last-block lookup makes the backfill ask for the range
\* 0..=0, a failed range fetch makes it hand on_new_blocks an empty batch,
\* after which the store is empty with both bounds 0; the task leaves its
\* first step only for the backfill call or the stream, leaves the backfill
\* call only for the stream, and ends only at the stream.
C22_ProviderFailureNotFatal ==
    /\ [][(tpc = "init" /\ tpc' = "backfill" /\ ~tbackfill'[1].last_ok) =>
            /\ tbackfill'[1].last_block_number = 0
            /\ wbatch' = IF tbackfill'[1].range_ok THEN <<Block(0, 0)>> ELSE <<>>]_vars
    /\ [][(tpc = "init" /\ tpc' = "backfill" /\ ~tbackfill'[1].range_ok) =>
            wbatch' = <<>>]_vars
    /\ [][(/\ tpc = "backfill" /\ wpc = "store_lower" /\ wpc' = "idle"
           /\ ~tbackfill[1].range_ok) =>
            /\ DOMAIN entries' = {}
            /\ lower_bound' = 0
            /\ upper_bound' = 0]_vars
    /\ [][(tpc = "init" /\ tpc' # tpc) => tpc' \in {"backfill", "await"}]_vars
    /\ [][(tpc = "backfill" /\ tpc' # tpc) => tpc' = "await"]_vars
    /\ [][(tpc' = "ended" /\ tpc # "ended") => tpc = "await"]_vars

\* The backfill call has ended after both provider calls failed, the store
\* is empty, and a notification is waiting for the task.
C22_Witness ==
    /\ tpc = "backfill"
    /\ wpc = "idle"
    /\ ~tbackfill[1].last_ok
    /\ ~tbackfill[1].range_ok
    /\ Keys = {}
    /\ lower_bound = 0
    /\ upper_bound = 0
    /\ events > 0

\* C23: the task ends only from its wait on the stream, with the stream
\* closed and drained, so it has not ended while the stream is open; and
\* once the stream is closed the task does end.
C23_EndsWithStream ==
    /\ [][(tpc' = "ended" /\ tpc # "ended") =>
            (tpc = "await" /\ closed /\ events = 0)]_vars
    /\ [](tpc = "ended" => (closed /\ events = 0))
    /\ [](~closed => tpc # "ended")
    /\ (closed ~> tpc = "ended")

\* The task has ended after the stream was closed, having ingested a
\* committed chain of a competing fork.
C23_Witness ==
    /\ tpc = "ended"
    /\ closed
    /\ events = 0
    /\ \E n \in Keys : entries[n].header_hash = <<n, 1>>

\* ------------------------------------------------------------------ further properties of get_history

\* C24: a get_history call that has loaded its lower bound and whose range
\* is outside that bound or the upper bound it is about to load can take
\* its next step whatever the writer is doing, and that step ends the call
\* with None without going for the entries lock and without touching the
\* writer.
C24_FastReject ==
    /\ []((rpc = "load_upper" /\ (rs < rlb \/ re > upper_bound)) =>
            ENABLED (GetHistoryCheck /\ rpc' = "done" /\ rresult' = None))
    /\ [][(rpc = "load_upper" /\ rpc' # rpc /\ (rs < rlb \/ re > upper_bound)) =>
            /\ rpc' = "done"
            /\ rresult' = None
            /\ wpc' = wpc]_vars

\* A call has been rejected and an on_new_blocks call that had stored
\* blocks before still holds the write lock.
C24_Witness ==
    /\ rpc = "done"
    /\ rresult = None
    /\ wpc = "store_upper"
    /\ Keys # {}
    /\ upper_bound >= 1
    /\ re > upper_bound

\* C27: no step of a get_history call changes the entries or a bound, and
\* every step that changes one of them is a step of an on_new_blocks call.
C27_GetHistoryReadOnly ==
    /\ [][rpc' # rpc =>
            /\ entries' = entries
            /\ lower_bound' = lower_bound
            /\ upper_bound' = upper_bound]_vars
    /\ [][(entries' # entries \/ lower_bound' # lower_bound \/ upper_bound' # upper_bound) =>
            (wpc' # wpc /\ rpc' = rpc)]_vars

\* A call has returned the entries of two blocks, which are still stored.
C27_Witness ==
    /\ rpc = "done"
    /\ rresult.kind = "Some"
    /\ Len(rresult.items) >= 2
    /\ wpc = "idle"
    /\ \A i \in 1..Len(rresult.items) :
          HashNumber(rresult.items[i].header_hash) \in Keys
    /\ lower_bound < upper_bound

\* C28 (as claimed): a get_history call that reads a store holding no
\* entries does not return Some.
C28_EmptyStoreNotAvailable ==
    [][(rpc = "read" /\ rpc' = "done" /\ Keys = {}) => rresult'.kind # "Some"]_vars

\* ------------------------------------------------------------------ entries and reorganizations

\* C25 (as claimed): the entry stored under a number stays the same for as
\* long as the number is in the store, whatever later calls deliver.
C25_EntryNeverChanges ==
    [][\A n \in Keys \cap DOMAIN entries' : entries'[n] = entries[n]]_vars

\* C25 (amended): the entry stored under n changes only in the for loop of
\* an on_new_blocks call whose batch has, before the first block without
\* transactions and receipts, a block numbered n, and then it becomes that
\* block's entry; every block of that part of the batch has its own entry
\* under its number when the loop is over.
C25_EntryChangesOnlyBySameNumber ==
    /\ [][\A n \in Keys \cap DOMAIN entries' :
            entries'[n] # entries[n] =>
                /\ wpc = "idle" /\ wpc' = "evict"
                /\ \E i \in 1..Len(wbatch') :
                      /\ wmiss' = 0 \/ i < wmiss'
                      /\ wbatch'[i].number = n
                      /\ entries'[n] = FeeHistoryEntryNew(wbatch'[i])]_vars
    /\ [][(tpc = "event" /\ tpc' = "ingest") =>
            \A i \in 1..Len(wbatch') :
                (wmiss' = 0 \/ i < wmiss') =>
                    entries'[wbatch'[i].number] = FeeHistoryEntryNew(wbatch'[i])]_vars

\* An ingest call has replaced the entry of block 1 by that of a competing
\* block 1 and has left the entry of block 2 as it was.
C25_Witness ==
    /\ tpc = "ingest"
    /\ wpc = "evict"
    /\ wmiss = 0
    /\ Len(wbatch) = 1
    /\ wbatch[1] = Block(1, 1)
    /\ {1, 2} \subseteq DOMAIN wpre
    /\ wpre[1] = FeeHistoryEntryNew(Block(1, 0))
    /\ entries[1] = FeeHistoryEntryNew(Block(1, 1))
    /\ entries[2] = wpre[2]

\* C29 (as claimed): when the on_new_blocks call made for a committed chain
\* returns, every entry stored under a number of that chain carries the
\* hash of the chain's block of that number.
C29_SynchronizedAcrossReorgs ==
    [][(tpc = "ingest" /\ wpc = "store_lower" /\ wpc' = "idle") =>
            \A n \in DOMAIN tevent.committed[1] \cap DOMAIN entries' :
                entries'[n].header_hash = tevent.committed[1][n].hash]_vars

\* ------------------------------------------------------------------ overlapping pending-block requests

\* Request p resolved a derived origin and has returned a block.
ReturnedBlockOnOrigin(p) ==
    /\ qpc[p] = "done"
    /\ qorigin[p].number >= 1
    /\ qresult[p].kind = "Ok"
    /\ qresult[p].value # <<>>

\* C30 (as claimed): once two requests that resolved origins of different
\* heads have both returned a block, the slot holds a block built on the
\* later of the two heads.
C30_NewerHeadKept ==
    \A p \in Requests : \A q \in Requests :
        (/\ ReturnedBlockOnOrigin(p)
         /\ ReturnedBlockOnOrigin(q)
         /\ qorigin[p].number < qorigin[q].number) =>
            /\ pending_block # <<>>
            /\ pending_block[1].block.number = qorigin[q].number

\* ------------------------------------------------------------------ entries with their rewards

\* An f64 that is the quotient of two whole numbers, kept as the pair; the
\* quotient 0/0 is NaN.
NaN == [num |-> 0, den |-> 0]

\* a as f64 / b as f64 (a and b not both beyond 0 only in b).
F64Div(a, b) == [num |-> a, den |-> b]

IsNaN(x) == x.den = 0 /\ x.num = 0

\* Comparisons of f64: each one is false when a side is NaN.
F64Less(x, y) == ~IsNaN(x) /\ ~IsNaN(y) /\ x.num * y.den < y.num * x.den

F64Equals(x, y) == ~IsNaN(x) /\ ~IsNaN(y) /\ x.num * y.den = y.num * x.den

\* Variant: 0..100 * resolution, the end left out.
PredefinedPercentilesExclusive(res) == [i \in 1..(100 * res) |-> F64Div(i - 1, res)]

\* (0..=100 * self.resolution()).map(|p| p as f64 / res).collect()
PredefinedPercentiles(res) == [i \in 1..(100 * res + 1) |-> F64Div(i - 1, res)]

\* (gas_used as f64 * percentile / 100.) as u64 for a percentile that is a
\* quotient: the cast truncates and takes NaN to 0. For the resolutions and
\* gas values tried the f64 arithmetic gives the exact quotient's floor.
ThresholdOfQuotient(gas, percentile) ==
    IF IsNaN(percentile) THEN 0
    ELSE (gas * percentile.num) \div (100 * percentile.den)

\* The iterations i..last of the for loop of
\* calculate_reward_percentiles_for_block over the sorted list, with the
\* cursor and the running sum as they stand: what they push, and the cursor
\* and the sum they leave.
RECURSIVE RewardsLoop(_, _, _, _, _, _, _)
RewardsLoop(pcts, i, last, gas, list, index, cumulative) ==
    IF i > last
    THEN [rewards |-> <<>>, tx_index |-> index, cumulative_gas_used |-> cumulative]
    ELSE IF list = <<>>
    THEN LET rest == RewardsLoop(pcts, i + 1, last, gas, list, index, cumulative)
         IN [rest EXCEPT !.rewards = <<0>> \o @]
    ELSE LET cursor == AdvanceCursor(list, index, cumulative, ThresholdOfQuotient(gas, pcts[i]))
             rest == RewardsLoop(pcts, i + 1, last, gas, list, cursor.tx_index,
                                 cursor.cumulative_gas_used)
         IN [rest EXCEPT !.rewards = <<list[cursor.tx_index + 1].reward>> \o @]

\* The whole loop from percentile i on, evaluated ten iterations at a
\* time, each part starting where the one before left the cursor.
RECURSIVE RewardsFromPercentile(_, _, _, _, _, _)
RewardsFromPercentile(pcts, i, gas, list, index, cumulative) ==
    IF i > Len(pcts) THEN <<>>
    ELSE LET last == IF i + 9 < Len(pcts) THEN i + 9 ELSE Len(pcts)
             part == RewardsLoop(pcts, i, last, gas, list, index, cumulative)
         IN part.rewards \o
            RewardsFromPercentile(pcts, last + 1, gas, list, part.tx_index,
                                  part.cumulative_gas_used)

\* calculate_reward_percentiles_for_block as one value: scan, sort, loop.
\* It has no path that returns Err.
CalculateRewardPercentilesForBlock(pcts, gas, txs, rcpts) ==
    LET list == SortByReward(ScanGas(txs, rcpts))
    IN RewardsFromPercentile(pcts, 1, gas, list, 0,
                             IF list = <<>> THEN 0 ELSE list[1].gas_used)

\* What the eth_cache supplies for a block: the effective tips of its
\* transactions, the cumulative gas of its receipts, and the header's
\* gas_used. An empty block and a block of two transactions with the dearer
\* one first.
BlockBodies ==
    { [transactions |-> <<>>, receipts |-> <<>>, gas_used |-> 0],
      [transactions |-> <<9, 1>>, receipts |-> <<10, 40>>, gas_used |-> 40] }

\* fee_history_entry.rewards = calculate_reward_percentiles_for_block(..)
\*     .unwrap_or_default() on the entry FeeHistoryEntry::new made.
EntryWithRewards(block, body, res) ==
    [header_hash |-> FeeHistoryEntryNew(block).header_hash,
     rewards |-> CalculateRewardPercentilesForBlock(
                    PredefinedPercentiles(res), body.gas_used,
                    body.transactions, body.receipts)]

\* entries.write().await: the call has the lock and its batch before it.
OnNewBlocksLock(batch) ==
    /\ wpc = "idle"
    /\ wpc' = "loop"
    /\ wbatch' = batch
    /\ UNCHANGED <<max_blocks, resolution, entries, lower_bound, upper_bound, wmiss, wpre, fed>>

\* One iteration of the for loop with the eth_cache supplying the block's
\* transactions and receipts: the entry is inserted with its rewards.
OnNewBlocksIterate ==
    /\ wpc = "loop"
    /\ wbatch # <<>>
    /\ \E body \in BlockBodies :
          entries' = MapInsert(entries, Head(wbatch).number,
                               EntryWithRewards(Head(wbatch), body, resolution))
    /\ wbatch' = Tail(wbatch)
    /\ UNCHANGED <<max_blocks, resolution, lower_bound, upper_bound, wpc, wmiss, wpre, fed>>

\* The eth_cache does not supply them: break.
OnNewBlocksBreak ==
    /\ wpc = "loop"
    /\ wbatch # <<>>
    /\ wpc' = "evict"
    /\ wbatch' = <<>>
    /\ UNCHANGED <<max_blocks, resolution, entries, lower_bound, upper_bound, wmiss, wpre, fed>>

\* The iterator is exhausted.
OnNewBlocksLoopEnds ==
    /\ wpc = "loop"
    /\ wbatch = <<>>
    /\ wpc' = "evict"
    /\ UNCHANGED <<max_blocks, resolution, entries, lower_bound, upper_bound, wbatch, wmiss, wpre, fed>>

\* The batches the task hands over: runs of consecutive blocks in
\* ascending order, the empty run among them.
AscendingBatches ==
    {BlockRange(lo, hi) : lo \in 0..MaxBlockNum, hi \in 0..MaxBlockNum}

\* A cache of any capacity and resolution, as constructed.
EntriesInit ==
    /\ max_blocks \in 0..MaxCap
    /\ resolution \in 0..MaxResolution
    /\ InitCache
    /\ InitPending
    /\ InitCalc
    /\ InitTask

EntriesNext ==
    \/ (\E batch \in AscendingBatches : OnNewBlocksLock(batch))
            /\ UNCHANGED <<readerVars, pendingVars, calcVars, taskVars>>
    \/ OnNewBlocksIterate /\ UNCHANGED <<readerVars, pendingVars, calcVars, taskVars>>
    \/ OnNewBlocksBreak /\ UNCHANGED <<readerVars, pendingVars, calcVars, taskVars>>
    \/ OnNewBlocksLoopEnds /\ UNCHANGED <<readerVars, pendingVars, calcVars, taskVars>>
    \/ OnNewBlocksEvict /\ UNCHANGED <<readerVars, pendingVars, calcVars, taskVars>>
    \/ OnNewBlocksStoreUpper /\ UNCHANGED <<readerVars, pendingVars, calcVars, taskVars>>
    \/ OnNewBlocksStoreLower /\ UNCHANGED <<readerVars, pendingVars, calcVars, taskVars>>

SpecEntries == EntriesInit /\ [][EntriesNext]_vars

\* The percentiles run from 0 to 100 and each is below the next.
PercentilesSpanZeroToHundred(pcts) ==
    /\ pcts # <<>>
    /\ F64Equals(pcts[1], F64Div(0, 1))
    /\ F64Equals(pcts[Len(pcts)], F64Div(100, 1))
    /\ \A i \in 1..(Len(pcts) - 1) : F64Less(pcts[i], pcts[i + 1])

\* Every stored entry has 100 * resolution + 1 rewards, none has none.
RewardsPerEntry ==
    \A n \in Keys :
        /\ Len(entries[n].rewards) = 100 * resolution + 1
        /\ entries[n].rewards # <<>>

====
